---- MODULE Spec2Model ----
(***************************************************************************)
(* A model of app.py, a Streamlit script.  Streamlit executes the script   *)
(* top to bottom once when the session starts and once more for every      *)
(* user interaction (a widget change, a button press, a manual rerun);     *)
(* each execution is a "run" with a fresh module namespace, while widget   *)
(* values live in the session and survive from run to run.                 *)
(*                                                                         *)
(* Numbers the script handles as floats are fixed-point integers here:     *)
(* feature statistics and scaled values in units of 1/Unit, probabilities  *)
(* in units of 1/One, the training and patient oldpeak in tenths.          *)
(***************************************************************************)
EXTENDS Integers, Sequences, FiniteSets, TLC

\* The number of user interactions (reruns after the first run) explored.
MaxInteractions == 2

\* Fixed-point resolution of float64 feature arithmetic (lines 39, 117).
Unit == 10

\* Fixed-point resolution of a probability (line 121): 1.0.
One == 1000000

(***************************************************************************)
(* Arithmetic helpers.                                                     *)
(***************************************************************************)
RoundDiv(a, b) ==
    IF a >= 0 THEN (2 * a + b) \div (2 * b) ELSE 0 - ((2 * (0 - a) + b) \div (2 * b))

Abs(a) == IF a >= 0 THEN a ELSE 0 - a

RECURSIVE SqrtSearch(_, _, _)
SqrtSearch(n, lo, hi) ==
    IF lo >= hi THEN lo
    ELSE LET mid == (lo + hi + 1) \div 2
         IN  IF mid * mid <= n THEN SqrtSearch(n, mid, hi) ELSE SqrtSearch(n, lo, mid - 1)

\* numpy sqrt of a non-negative variance, to the fixed-point resolution
Sqrt(n) == SqrtSearch(n, 0, IF n < 40000 THEN n ELSE 40000)

RECURSIVE SumSeq(_)
SumSeq(s) == IF s = <<>> THEN 0 ELSE Head(s) + SumSeq(Tail(s))

\* list.index(x): the 0-based position of x; -1 stands for ValueError
IndexOf(list, x) ==
    IF \E i \in 1..Len(list) : list[i] = x
    THEN (CHOOSE i \in 1..Len(list) : list[i] = x /\ \A j \in 1..(i - 1) : list[j] # x) - 1
    ELSE 0 - 1

(***************************************************************************)
(* The form (lines 55-104).                                                *)
(***************************************************************************)
\* the order in which the handler lists its variables (line 112)
RowOrder ==
    << "age", "sex", "cp", "trestbps", "chol", "fbs", "restecg", "thalach",
       "exang", "oldpeak", "slope", "ca", "thal" >>

GenderOptions == << "Male", "Female" >>

ChestPainOptions ==
    << "Typical Angina (Heart Pain)", "Atypical Angina", "Non-anginal (Not Heart)",
       "Asymptomatic (No Pain)" >>

YesNoOptions == << "No", "Yes" >>

RestEcgOptions == << "Normal", "ST-T Wave Abnormality", "Left Ventricular Hypertrophy" >>

SlopeOptions == << "Upsloping", "Flat", "Downsloping" >>

ThalOptions == << "Normal", "Fixed Defect (Permanent)", "Reversible Defect (Temporary)" >>

\* st.number_input / st.slider: min_value, max_value, value (oldpeak in tenths)
NumberInputs ==
    [ age      |-> [min |-> 1,   max |-> 120, value |-> 50],
      trestbps |-> [min |-> 50,  max |-> 250, value |-> 120],
      chol     |-> [min |-> 100, max |-> 600, value |-> 200],
      thalach  |-> [min |-> 60,  max |-> 220, value |-> 150],
      oldpeak  |-> [min |-> 0,   max |-> 100, value |-> 10],
      ca       |-> [min |-> 0,   max |-> 3,   value |-> 0] ]

SelectBoxes ==
    [ sex     |-> GenderOptions,
      cp      |-> ChestPainOptions,
      fbs     |-> YesNoOptions,
      restecg |-> RestEcgOptions,
      exang   |-> YesNoOptions,
      slope   |-> SlopeOptions,
      thal    |-> ThalOptions ]

SeqRange(s) == { s[i] : i \in 1..Len(s) }

\* the values the user can give a widget; a number input is sampled at its
\* minimum, its default and its maximum, the 0..3 slider in full
WidgetDomain(w) ==
    IF w \in DOMAIN SelectBoxes THEN SeqRange(SelectBoxes[w])
    ELSE IF w = "ca" THEN NumberInputs[w].min .. NumberInputs[w].max
    ELSE { NumberInputs[w].min, NumberInputs[w].value, NumberInputs[w].max }

\* a fresh session: a selectbox shows its first option, a number its value
DefaultWidgets ==
    [ w \in SeqRange(RowOrder) |->
        IF w \in DOMAIN SelectBoxes THEN SelectBoxes[w][1] ELSE NumberInputs[w].value ]

SexCode(sex_txt) == IF sex_txt = "Male" THEN 1 ELSE 0

YesCode(txt) == IF txt = "Yes" THEN 1 ELSE 0

\* the option's index with no offset
ThalCodeNoOffset(thal_txt) == IndexOf(ThalOptions, thal_txt)

ThalCode(thal_txt) == IndexOf(ThalOptions, thal_txt) + 1

\* lines 57-104: the script variables age .. thal computed from the widgets
Encode(ws) ==
    [ age      |-> ws.age,
      sex      |-> SexCode(ws.sex),
      cp       |-> IndexOf(ChestPainOptions, ws.cp),
      trestbps |-> ws.trestbps,
      chol     |-> ws.chol,
      fbs      |-> YesCode(ws.fbs),
      restecg  |-> IndexOf(RestEcgOptions, ws.restecg),
      thalach  |-> ws.thalach,
      exang    |-> YesCode(ws.exang),
      oldpeak  |-> ws.oldpeak,
      slope    |-> IndexOf(SlopeOptions, ws.slope),
      ca       |-> ws.ca,
      thal     |-> ThalCode(ws.thal) ]

\* a list.index call of lines 67, 82, 97, 104 raises ValueError
EncodeRaises(ws) ==
    \/ IndexOf(ChestPainOptions, ws.cp) < 0
    \/ IndexOf(RestEcgOptions, ws.restecg) < 0
    \/ IndexOf(SlopeOptions, ws.slope) < 0
    \/ IndexOf(ThalOptions, ws.thal) < 0

NoInputs == [ w \in SeqRange(RowOrder) |-> 0 - 1 ]

(***************************************************************************)
(* heart.csv: the file the script reads.  The script accepts whatever the  *)
(* file holds, so the model starts from a family of files: absent,         *)
(* unparseable, and CSV files over several headers and row sets.           *)
(***************************************************************************)
LowRow(target) ==
    [ age |-> 40, sex |-> 0, cp |-> 0, trestbps |-> 110, chol |-> 180, fbs |-> 0,
      restecg |-> 0, thalach |-> 120, exang |-> 0, oldpeak |-> 0, slope |-> 0,
      ca |-> 0, thal |-> 1, target |-> target ]

HighRow(target) ==
    [ age |-> 60, sex |-> 1, cp |-> 2, trestbps |-> 150, chol |-> 260, fbs |-> 1,
      restecg |-> 2, thalach |-> 180, exang |-> 1, oldpeak |-> 20, slope |-> 2,
      ca |-> 2, thal |-> 3, target |-> target ]

\* HighRow with the fasting-blood-sugar flag of LowRow
HighRowFbs0(target) == [ HighRow(target) EXCEPT !.fbs = 0 ]

SchemaHeader == RowOrder \o << "target" >>

\* the columns sex and age exchanged
SwappedHeader == << "sex", "age" >> \o SubSeq(RowOrder, 3, Len(RowOrder)) \o << "target" >>

\* no thal column: 12 features
ShortHeader == SubSeq(RowOrder, 1, Len(RowOrder) - 1) \o << "target" >>

\* no label column
NoTargetHeader == RowOrder

\* a data-less file, and row sets of two classes, of one class, with the fbs
\* column constant, and with every column constant
RowSets ==
    { << >>,
      << LowRow(0), HighRow(1) >>,
      << LowRow(0), HighRow(0) >>,
      << LowRow(0), HighRowFbs0(1) >>,
      << LowRow(0), LowRow(1) >> }

CsvFile(h, r) == [exists |-> TRUE, parses |-> TRUE, header |-> h, rows |-> r]

Files ==
    { [exists |-> FALSE, parses |-> FALSE, header |-> << >>, rows |-> << >>],
      [exists |-> TRUE,  parses |-> FALSE, header |-> << >>, rows |-> << >>] }
    \cup { CsvFile(SchemaHeader, r) : r \in RowSets }
    \cup { CsvFile(h, << LowRow(0), HighRow(1) >>) :
             h \in { SwappedHeader, ShortHeader, NoTargetHeader } }

(***************************************************************************)
(* pandas: read_csv, drop, column selection (lines 31-36).                 *)
(***************************************************************************)
\* X.columns.tolist() of df.drop('target', axis=1)
DropTarget(header) == SelectSeq(header, LAMBDA c : c # "target")

\* the matrix of df.drop('target', axis=1): one sequence per row, by column
FeatureMatrix(f) ==
    LET cols == DropTarget(f.header)
    IN  [ r \in 1..Len(f.rows) |-> [ i \in 1..Len(cols) |-> f.rows[r][cols[i]] ] ]

\* df['target']
TargetVector(f) == [ r \in 1..Len(f.rows) |-> f.rows[r].target ]

\* pd.read_csv raises (ParserError, ...), or 'target' is no column (KeyError)
LoadRaises(f) == ~f.parses \/ "target" \notin SeqRange(f.header)

(***************************************************************************)
(* sklearn StandardScaler (lines 38-39, 117).                              *)
(***************************************************************************)
Column(M, i) == [ r \in 1..Len(M) |-> M[r][i] ]

Mean(col) == RoundDiv(SumSeq(col) * Unit, Len(col))

Variance(col) ==
    LET m == Mean(col)
    IN  RoundDiv(SumSeq([ r \in 1..Len(col) |-> (col[r] * Unit - m) * (col[r] * Unit - m) ]),
                 Len(col))

\* _handle_zeros_in_scale: a zero standard deviation is replaced by 1.0
HandleZerosInScale(std) == IF std = 0 THEN Unit ELSE std

\* fit on a matrix with no row raises ValueError
ScalerFitRaises(M) == Len(M) = 0

ScalerFit(M) ==
    LET n == Len(M[1])
    IN  [ fitted |-> TRUE,
          mean_  |-> [ i \in 1..n |-> Mean(Column(M, i)) ],
          scale_ |-> [ i \in 1..n |-> HandleZerosInScale(Sqrt(Variance(Column(M, i)))) ] ]

\* transform of one row: (x - mean_) / scale_ with the stored statistics
Transform(s, row) ==
    [ i \in 1..Len(row) |-> RoundDiv((row[i] * Unit - s.mean_[i]) * Unit, s.scale_[i]) ]

UnfittedScaler == [ fitted |-> FALSE, mean_ |-> << >>, scale_ |-> << >> ]

(***************************************************************************)
(* sklearn LogisticRegression (lines 41-42, 120-121).                      *)
(***************************************************************************)
RECURSIVE SortedSeq(_)
SortedSeq(S) ==
    IF S = {} THEN << >>
    ELSE LET m == CHOOSE x \in S : \A z \in S : x <= z
         IN  << m >> \o SortedSeq(S \ {m})

\* np.unique(y)
Classes(labels) == SortedSeq(SeqRange(labels))

\* a fit that accepts any labels
ModelFitNeverRaises(labels) == FALSE

\* fit raises ValueError: the solver needs samples of at least 2 classes
ModelFitRaises(labels) == Cardinality(SeqRange(labels)) < 2

\* The minimiser L-BFGS returns is not computed here: `opt` is a weight
\* vector of the grid Weights, and the result keeps of it what the
\* regularised log-loss leaves free.  A column that is all zero after
\* scaling has the coefficient 0; with every column zero the intercept is
\* the log-odds of the labels, 0 for the balanced row sets above.
ZeroColumn(Ms, i) == \A r \in 1..Len(Ms) : Ms[r][i] = 0

ModelFit(Ms, labels, opt) ==
    LET n == Len(Ms[1])
    IN  [ fitted     |-> TRUE,
          coef_      |-> [ i \in 1..n |-> IF ZeroColumn(Ms, i) THEN 0 ELSE opt.coef[i] ],
          intercept_ |-> IF \A i \in 1..n : ZeroColumn(Ms, i) THEN 0 ELSE opt.intercept,
          classes_   |-> Classes(labels) ]

UnfittedModel == [ fitted |-> FALSE, coef_ |-> << >>, intercept_ |-> 0, classes_ |-> << >> ]

\* the grid: a coefficient of -1.0, 0 or 1.0 on the eighth column and an
\* intercept of -1.0 or 0.3.  No point of it scores a form input at exactly
\* 0, so a zero score arises only where the objective forces the weights
\* to zero (the all-constant training matrix), not from the grid's spacing.
Weights ==
    { [ coef |-> [ i \in 1..Len(RowOrder) |-> IF i = 8 THEN v * Unit ELSE 0 ],
        intercept |-> b ] :
        v \in {0 - 1, 0, 1}, b \in {0 - Unit, 3} }

\* the file's data reaches model.fit and is accepted by it
Trainable(f) ==
    /\ f.exists /\ ~LoadRaises(f)
    /\ ~ScalerFitRaises(FeatureMatrix(f))
    /\ ~ModelFitRaises(TargetVector(f))

\* what the optimiser can return on the file's data
Optima(f) ==
    IF ~Trainable(f) THEN { CHOOSE w \in Weights : TRUE }
    ELSE LET M  == FeatureMatrix(f)
             s  == ScalerFit(M)
             Ms == [ r \in 1..Len(M) |-> Transform(s, M[r]) ]
         IN  { [ coef      |-> ModelFit(Ms, TargetVector(f), w).coef_,
                 intercept |-> ModelFit(Ms, TargetVector(f), w).intercept_ ] :
                 w \in Weights }

\* decision_function: coef_ . x + intercept_
Decision(m, xs) ==
    RoundDiv(SumSeq([ i \in 1..Len(xs) |-> m.coef_[i] * xs[i] ]), Unit) + m.intercept_

\* scipy expit at 0, 0.5, 1, ... 8, in units of 1/One
ExpitTable ==
    << 500000, 622459, 731059, 817574, 880797, 924142, 952574, 970688, 982014,
       989013, 993307, 995930, 997527, 998499, 999089, 999447, 999665 >>

\* expit(z) for z = d / Unit, interpolated between the table's points
Expit(d) ==
    LET a    == Abs(d)
        half == Unit \div 2
        k    == a \div half
        up   == IF k + 1 >= Len(ExpitTable) THEN ExpitTable[Len(ExpitTable)]
                ELSE ExpitTable[k + 1]
                     + ((ExpitTable[k + 2] - ExpitTable[k + 1]) * (a % half)) \div half
    IN  IF d >= 0 THEN up ELSE One - up

\* LinearClassifierMixin.predict: classes_[int(score > 0)]
Predict(m, xs) == IF Decision(m, xs) > 0 THEN m.classes_[2] ELSE m.classes_[1]

\* predict_proba(...)[0]: the probabilities of classes_[0] and classes_[1]
PredictProba(m, xs) == << One - Expit(Decision(m, xs)), Expit(Decision(m, xs)) >>

\* predict_proba(input_scaled)[0][0]: the other column
PositiveProbaFirstColumn(m, xs) == PredictProba(m, xs)[1]

\* line 121: predict_proba(input_scaled)[0][1]
PositiveProba(m, xs) == PredictProba(m, xs)[2]

(***************************************************************************)
(* The display (lines 123-130).  A confidence is the number the :.2f       *)
(* format prints, in hundredths of a percent.                              *)
(***************************************************************************)
Format2f(pTimes100) == RoundDiv(pTimes100, One \div 10000)

Nothing == [ kind |-> "none", confidence |-> 0 - 1 ]

MissingFileError == [ kind |-> "missing file", confidence |-> 0 - 1 ]

SystemError == [ kind |-> "system error", confidence |-> 0 - 1 ]

Outcome(label, p) ==
    IF label = 1
    THEN [ kind |-> "high risk", confidence |-> Format2f(p * 100) ]
    ELSE [ kind |-> "healthy", confidence |-> Format2f((One - p) * 100) ]

(***************************************************************************)
(* State.                                                                  *)
(***************************************************************************)
VARIABLES
    file,            \* heart.csv
    optimum,         \* what L-BFGS converges to on this file's data (see ModelFit)
    widgets,         \* the session's widget values
    pressed,         \* st.button returns True in this run
    pc,              \* the script's position in this run
    bound,           \* the module-level names this run has bound
    feature_names, X, y,
    scaler, model,
    inputs,          \* the script variables age .. thal
    input_df, input_scaled, prediction, probability,
    shown,           \* the error or outcome this run displays
    exception,       \* the uncaught exception that ended this run
    loads, scalerFits, modelFits,   \* executions of lines 31, 39, 42 in the process
    interactions     \* user interactions so far

env == << file, optimum >>

session == << widgets, interactions >>

globals == << bound, feature_names, X, y, scaler, model >>

request == << input_df, input_scaled, prediction, probability >>

counters == << loads, scalerFits, modelFits >>

vars ==
    << file, optimum, widgets, pressed, pc, bound, feature_names, X, y, scaler, model,
       inputs, input_df, input_scaled, prediction, probability, shown, exception,
       loads, scalerFits, modelFits, interactions >>

NoFrame == [ columns |-> << >>, values |-> << >> ]

\* the namespace of a run that has executed nothing yet
FreshRun ==
    /\ pc = "check"
    /\ bound = {}
    /\ feature_names = << >> /\ X = << >> /\ y = << >>
    /\ scaler = UnfittedScaler /\ model = UnfittedModel
    /\ inputs = NoInputs
    /\ input_df = NoFrame /\ input_scaled = << >>
    /\ prediction = 0 - 1 /\ probability = 0 - 1
    /\ shown = Nothing
    /\ exception = "none"

Init ==
    /\ file \in Files
    /\ optimum \in Optima(file)
    /\ widgets = DefaultWidgets
    /\ pressed = FALSE
    /\ FreshRun
    /\ loads = 0 /\ scalerFits = 0 /\ modelFits = 0
    /\ interactions = 0

(***************************************************************************)
(* The script, top to bottom.                                              *)
(***************************************************************************)
\* lines 25-28 without the st.stop()
CheckFileNoStop ==
    /\ pc = "check"
    /\ shown' = (IF file.exists THEN shown ELSE MissingFileError)
    /\ pc' = "load"
    /\ UNCHANGED << env, session, pressed, globals, inputs, request, exception, counters >>

\* lines 25-28
CheckFile ==
    /\ pc = "check"
    /\ IF file.exists
       THEN pc' = "load" /\ shown' = shown
       ELSE pc' = "stopped" /\ shown' = MissingFileError
    /\ UNCHANGED << env, session, pressed, globals, inputs, request, exception, counters >>

\* lines 44-46 without the st.stop(): the script goes on to the form
ExceptNoStop == shown' = SystemError /\ pc' = "widgets"

\* lines 44-46
Except == shown' = SystemError /\ pc' = "stopped"

\* lines 31-36
Load ==
    /\ pc = "load"
    /\ loads' = loads + 1
    /\ IF ~file.exists \/ LoadRaises(file)
       THEN /\ Except
            /\ UNCHANGED << bound, feature_names, X, y >>
       ELSE /\ X' = FeatureMatrix(file)
            /\ y' = TargetVector(file)
            /\ feature_names' = DropTarget(file.header)
            /\ bound' = bound \cup {"feature_names"}
            /\ pc' = "scale"
            /\ shown' = shown
    /\ UNCHANGED << env, session, pressed, scaler, model, inputs, request, exception,
                    scalerFits, modelFits >>

\* lines 38-39
Scale ==
    /\ pc = "scale"
    /\ scalerFits' = scalerFits + 1
    /\ bound' = bound \cup {"scaler"}
    /\ IF ScalerFitRaises(X)
       THEN Except /\ scaler' = UnfittedScaler
       ELSE scaler' = ScalerFit(X) /\ pc' = "fit" /\ shown' = shown
    /\ UNCHANGED << env, session, pressed, feature_names, X, y, model, inputs, request,
                    exception, loads, modelFits >>

\* X_scaled of line 39
XScaled == [ r \in 1..Len(X) |-> Transform(scaler, X[r]) ]

\* lines 41-42
Fit ==
    /\ pc = "fit"
    /\ modelFits' = modelFits + 1
    /\ bound' = bound \cup {"model"}
    /\ IF ModelFitRaises(y)
       THEN Except /\ model' = UnfittedModel
       ELSE model' = ModelFit(XScaled, y, optimum) /\ pc' = "widgets" /\ shown' = shown
    /\ UNCHANGED << env, session, pressed, feature_names, X, y, scaler, inputs, request,
                    exception, loads, scalerFits >>

\* lines 55-104
ReadWidgets ==
    /\ pc = "widgets"
    /\ IF EncodeRaises(widgets)
       THEN exception' = "ValueError: not in list" /\ pc' = "idle" /\ inputs' = inputs
       ELSE inputs' = Encode(widgets) /\ pc' = "button" /\ exception' = exception
    /\ UNCHANGED << env, session, pressed, globals, request, shown, counters >>

\* line 112: the one row of the frame
PatientRow == [ i \in 1..Len(RowOrder) |-> inputs[RowOrder[i]] ]

\* the exception lines 111-121 raise, "none" when they run through
HandlerRaises ==
    IF "feature_names" \notin bound \/ "scaler" \notin bound \/ "model" \notin bound
    THEN "NameError"
    ELSE IF Len(feature_names) # Len(PatientRow) THEN "ValueError: columns"
    ELSE IF ~scaler.fitted \/ ~model.fitted THEN "NotFittedError"
    ELSE "none"

\* lines 116-121 with the row fitted and transformed by fit_transform
ScoreRefit ==
    /\ scaler' = ScalerFit(<< PatientRow >>)
    /\ input_scaled' = Transform(scaler', PatientRow)
    /\ prediction' = Predict(model, input_scaled')
    /\ probability' = PositiveProba(model, input_scaled')
    /\ model' = model

\* lines 116-121
Score ==
    /\ input_scaled' = Transform(scaler, PatientRow)
    /\ prediction' = Predict(model, input_scaled')
    /\ probability' = PositiveProba(model, input_scaled')
    /\ UNCHANGED << scaler, model >>

\* lines 109-130
Button ==
    /\ pc = "button"
    /\ pc' = "idle"
    /\ IF ~pressed
       THEN UNCHANGED << request, shown, exception, scaler, model >>
       ELSE IF HandlerRaises # "none"
       THEN /\ exception' = HandlerRaises
            /\ UNCHANGED << request, shown, scaler, model >>
       ELSE /\ input_df' = [ columns |-> feature_names, values |-> PatientRow ]
            /\ Score
            /\ shown' = Outcome(prediction', probability')
            /\ exception' = exception
    /\ UNCHANGED << env, session, pressed, bound, feature_names, X, y, inputs, counters >>

(***************************************************************************)
(* The user.  Streamlit reruns the script with a fresh namespace.          *)
(***************************************************************************)
Rerun(click) ==
    /\ interactions < MaxInteractions
    /\ interactions' = interactions + 1
    /\ pressed' = click
    /\ pc' = "check"
    /\ bound' = {}
    /\ feature_names' = << >> /\ X' = << >> /\ y' = << >>
    /\ scaler' = UnfittedScaler /\ model' = UnfittedModel
    /\ inputs' = NoInputs
    /\ input_df' = NoFrame /\ input_scaled' = << >>
    /\ prediction' = 0 - 1 /\ probability' = 0 - 1
    /\ shown' = Nothing
    /\ exception' = "none"
    /\ UNCHANGED << env, counters >>

\* a widget is given another value; the form is on the page once line 104 ran
ChangeWidget ==
    /\ pc = "idle"
    /\ \E w \in DOMAIN widgets : \E v \in WidgetDomain(w) \ {widgets[w]} :
           widgets' = [ widgets EXCEPT ![w] = v ]
    /\ Rerun(FALSE)

\* the analyze button is pressed
PressButton ==
    /\ pc = "idle"
    /\ widgets' = widgets
    /\ Rerun(TRUE)

\* "Rerun" of the Streamlit menu, available whatever the last run showed
RerunScript ==
    /\ pc \in {"idle", "stopped"}
    /\ widgets' = widgets
    /\ Rerun(FALSE)

Next ==
    \/ CheckFile
    \/ Load
    \/ Scale
    \/ Fit
    \/ ReadWidgets
    \/ Button
    \/ ChangeWidget
    \/ PressButton
    \/ RerunScript

Spec == Init /\ [][Next]_vars

(***************************************************************************)
(* Properties.                                                             *)
(***************************************************************************)
Half == One \div 2

ErrorKinds == { "missing file", "system error" }

OutcomeKinds == { "high risk", "healthy" }

\* lines 111-121 have produced something in this run
RowBuilt == input_df # NoFrame

Transformed == input_scaled # << >>

Predicted == prediction # 0 - 1 \/ probability # 0 - 1

PastStartup == pc \in { "widgets", "button", "idle" }

\* C1: a run whose startup fails (no file, or load, scaler fit or classifier
\* fit raises) shows an error and stops: it never reaches the form, builds
\* no row, transforms and predicts nothing and displays no outcome; a
\* stopped run shows the error, the missing-file one when the file is absent.
C1_StartupFailureIsFatal ==
    /\ shown.kind \in ErrorKinds => pc = "stopped"
    /\ pc = "stopped" => shown.kind \in ErrorKinds
    /\ pc = "stopped" /\ ~file.exists => shown = MissingFileError
    /\ ~Trainable(file) =>
          /\ ~PastStartup
          /\ ~RowBuilt /\ ~Transformed /\ ~Predicted
          /\ shown.kind \notin OutcomeKinds

\* a failed run that the user has rerun, and that failed and stopped again
C1_Witness ==
    /\ ~Trainable(file) /\ file.exists
    /\ interactions > 0
    /\ pc = "stopped" /\ shown = SystemError

\* C2 (as stated): in one process the dataset load, the scaler fit and the
\* classifier fit are each executed at most once, whatever the user does.
C2_FitOncePerProcess == loads <= 1 /\ scalerFits <= 1 /\ modelFits <= 1

\* C3: the form and the handler are reached only with the scaler and the
\* classifier both fitted; nothing is transformed or predicted by an unbound
\* or unfitted object, and no run ends in NotFittedError or NameError.
C3_NoUseBeforeFit ==
    /\ PastStartup => scaler.fitted /\ model.fitted /\ bound = {"feature_names", "scaler", "model"}
    /\ Transformed \/ Predicted => scaler.fitted /\ model.fitted
    /\ exception \notin { "NotFittedError", "NameError" }
    /\ model.fitted => scaler.fitted

\* a request served in a later run, after the run's own fits
C3_Witness ==
    /\ pressed /\ pc = "idle"
    /\ Transformed /\ Predicted
    /\ scaler.fitted /\ model.fitted

\* C4 (as stated): a row handed to the scaler has 13 values under the 13
\* schema names in schema order, and each slot holds the value of the
\* feature its training column holds.
C4_RowInSchemaOrder ==
    Transformed =>
        /\ Len(input_df.values) = 13
        /\ input_df.columns = RowOrder
        /\ \A i \in 1..Len(input_df.values) :
               input_df.values[i] = inputs[input_df.columns[i]]

\* the codes of the interface table, option by option
InterfaceCodes ==
    [ sex     |-> ("Male" :> 1) @@ ("Female" :> 0),
      cp      |-> ("Typical Angina (Heart Pain)" :> 0) @@ ("Atypical Angina" :> 1)
                  @@ ("Non-anginal (Not Heart)" :> 2) @@ ("Asymptomatic (No Pain)" :> 3),
      fbs     |-> ("No" :> 0) @@ ("Yes" :> 1),
      restecg |-> ("Normal" :> 0) @@ ("ST-T Wave Abnormality" :> 1)
                  @@ ("Left Ventricular Hypertrophy" :> 2),
      exang   |-> ("No" :> 0) @@ ("Yes" :> 1),
      slope   |-> ("Upsloping" :> 0) @@ ("Flat" :> 1) @@ ("Downsloping" :> 2),
      thal    |-> ("Normal" :> 1) @@ ("Fixed Defect (Permanent)" :> 2)
                  @@ ("Reversible Defect (Temporary)" :> 3) ]

\* C5: once lines 55-104 have run, every categorical variable holds the
\* code the interface table gives its option, every numeric variable the
\* widget's raw value, and no option makes the encoding raise.
C5_EncodingTable ==
    /\ exception # "ValueError: not in list"
    /\ pc \in { "button", "idle" } =>
          /\ \A w \in DOMAIN InterfaceCodes :
                 /\ widgets[w] \in DOMAIN InterfaceCodes[w]
                 /\ inputs[w] = InterfaceCodes[w][widgets[w]]
          /\ \A w \in DOMAIN NumberInputs : inputs[w] = widgets[w]

\* the last thalassemia option and the second gender, encoded
C5_Witness ==
    /\ pc = "idle"
    /\ widgets.thal = "Reversible Defect (Temporary)" /\ inputs.thal = 3
    /\ widgets.sex = "Female" /\ inputs.sex = 0

\* C6 (as stated): the label is 1 iff the probability of the positive class
\* is at least 0.5, the boundary 0.5 included.
C6_LabelIffProbabilityAtLeastHalf ==
    Predicted => (prediction = 1 <=> probability >= Half)

\* C6 (amended): the label is 0 or 1; label 1 needs a probability of at
\* least 0.5 and a probability above 0.5 gives label 1; at a decision score
\* of 0 the probability is exactly 0.5 and the label is 0.
C6_LabelFollowsScoreSign ==
    Predicted =>
        /\ prediction \in {0, 1}
        /\ prediction = 1 => probability >= Half
        /\ probability > Half => prediction = 1
        /\ Decision(model, input_scaled) = 0 => probability = Half /\ prediction = 0

\* the boundary: probability exactly 0.5, reported with label 0
C6_Witness == Predicted /\ probability = Half /\ prediction = 0

\* C7 (as stated): a run a button press started, whose startup succeeded,
\* ends displaying one outcome, high risk for label 1 with probability x 100
\* and healthy otherwise with (1 - probability) x 100; a run no press
\* started displays none.
C7_EveryPressDisplaysAnOutcome ==
    pc = "idle" =>
        IF pressed
        THEN /\ shown.kind \in OutcomeKinds
             /\ shown.kind = "high risk" <=> prediction = 1
             /\ shown.confidence =
                  Format2f((IF prediction = 1 THEN probability ELSE One - probability) * 100)
        ELSE shown.kind \notin OutcomeKinds

\* C8: on a training set of fewer than two classes the classifier is never
\* fitted: model.fit raises, the run shows the error and stops before the
\* form, and nothing is predicted.
C8_SingleClassHalts ==
    ~LoadRaises(file) /\ Cardinality(SeqRange(TargetVector(file))) < 2 =>
        /\ ~model.fitted
        /\ ~PastStartup /\ ~Predicted
        /\ "model" \in bound => pc = "stopped" /\ shown = SystemError

\* model.fit has been called on the one-class labels and the run stopped
C8_Witness ==
    /\ Len(y) > 0 /\ Cardinality(SeqRange(y)) = 1
    /\ modelFits > 0 /\ "model" \in bound
    /\ pc = "stopped"

\* a column of the training matrix holds one value
ConstantColumn(M, i) == \A r \in 1..Len(M) : M[r][i] = M[1][i]

\* C9 (as stated): with a constant-valued training column the scaler fit
\* fails: the scaler is never fitted and the run stops with the error.
C9_ConstantColumnRejected ==
    "scaler" \in bound /\ Len(X) > 0 /\ (\E i \in 1..Len(X[1]) : ConstantColumn(X, i)) =>
        ~scaler.fitted /\ pc = "stopped"

\* C10: the handler leaves the fitted scaler and classifier as they are,
\* and the scaled row it scores is the patient row normalised with the mean
\* and scale fitted on the training matrix.
C10_PredictionLeavesFittedState ==
    [][ pc = "button" =>
          /\ scaler' = scaler /\ model' = model
          /\ input_scaled' # << >> =>
                /\ scaler = ScalerFit(X)
                /\ input_scaled' =
                     [ i \in 1..Len(PatientRow) |->
                         RoundDiv((PatientRow[i] * Unit - Mean(Column(X, i))) * Unit,
                                  scaler.scale_[i]) ] ]_vars

\* a request for a patient who is no training row has been scored
C10_Witness ==
    /\ pc = "idle" /\ Transformed /\ Predicted
    /\ widgets.age = 120
    /\ scaler.fitted /\ scaler.mean_[1] # 120 * Unit

====
